---------------------------- MODULE Spec2Model ----------------------------
(***************************************************************************)
(* A model of ServiceWorker (src/src/index.js): the lifecycle state        *)
(* machine, the mailbox and the interval-driven _processMessages.          *)
(*                                                                         *)
(* JavaScript runs one task at a time; an async method runs without        *)
(* interruption up to its next `await`, so every action below is one such  *)
(* uninterrupted stretch: the synchronous part of a call, or the           *)
(* continuation after an awaited handler hook has settled.                 *)
(***************************************************************************)
EXTENDS Integers, Sequences, FiniteSets, TLC

\* Bounds of the model.
MaxOps == 3        \* calls of any kind made by the environment
MaxCalls == 2      \* start()/stop()/restart() calls among them
WideOps == 4       \* the same two bounds, for the longer scenarios (WideSpec)
WideCalls == 3
MaxIds == 2        \* send() calls in the scenarios about message ids (IdSpec)
MaxNow == 2        \* milliseconds the clock advances in them
MaxWorkers == 2    \* workers constructed by register() (RegSpec)
MaxRegOps == 2     \* the other calls made on the registry
WideWorkers == 1   \* the same two bounds, for the longer scenarios (WideRegSpec)
WideRegOps == 3

\* Message payloads; the modelled onMessage handler echoes its message and
\* throws on the payloads of FailingPayloads.
Payloads == {"a", "x"}
FailingPayloads == {"x"}

States == {"stopped", "starting", "running", "stopping", "error"}

NoTimer == 0       \* processInterval = null

\* Date.now() + Math.random() is one double.  Date.now() lies between 2^40 and
\* 2^41 (the years 2004 to 2039), where adjacent doubles are 2^-12 apart: one
\* millisecond holds UlpsPerMs doubles.  Math.random() is finer than that; the
\* model keeps SubUlp of its values per double of the sum.
UlpsPerMs == 4096
SubUlp == 4

VARIABLES
    handler,          \* which hooks the handler defines: [onStart, onStop, onMessage]
    errorListener,    \* whether a listener is attached to the worker's 'error' event
    state,            \* this.state
    messageQueue,     \* this.messageQueue: sequence of items [id, message]
    processInterval,  \* this.processInterval: a timer id, or NoTimer
    timers,           \* the interval timers that are active in the event loop
    inflight,         \* items handed to onMessage whose invocation has not settled
    sends,            \* one record per send() call: its message and its handle
    calls,            \* one record per start()/stop()/restart() call
    events,           \* the notifications emitted, each with the state at emit time
    hist,             \* the values this.state has taken, in order
    halted,           \* stop() was called and no start() has succeeded since
    now,              \* Date.now(), in milliseconds since the first call
    issued,           \* one record per accepted send(): the clock, the random draw, the id
    services,         \* registry.services: the registered workers, in insertion order
    workers,          \* the workers register() has constructed, by index
    regEvents,        \* the notifications emitted on the registry
    regCalls          \* one record per call made on the registry

\* The variables of the message ids.
idvars == <<now, issued>>

\* The variables of the registry.
regvars == <<services, workers, regEvents, regCalls>>

vars == <<handler, errorListener, state, messageQueue, processInterval, timers,
          inflight, sends, calls, events, hist, halted, idvars, regvars>>

\* The worker and the history it has produced, as one record, so that the
\* statements of a method compose as functions.
Cur ==
    [state |-> state, messageQueue |-> messageQueue,
     processInterval |-> processInterval, timers |-> timers,
     inflight |-> inflight, sends |-> sends, events |-> events,
     hist |-> hist, halted |-> halted]

Set(r) ==
    /\ state' = r.state
    /\ messageQueue' = r.messageQueue
    /\ processInterval' = r.processInterval
    /\ timers' = r.timers
    /\ inflight' = r.inflight
    /\ sends' = r.sends
    /\ events' = r.events
    /\ hist' = r.hist
    /\ halted' = r.halted

----------------------------------------------------------------------------
\* Statements of ServiceWorker.

\* this.state = s
SetState(r, s) == [r EXCEPT !.state = s, !.hist = Append(@, s)]

\* this.emit(ev, ...): listeners run synchronously, at the current state.
Emit(r, ev) == [r EXCEPT !.events = Append(@, <<ev, r.state>>)]

\* start(): state = 'starting'; emit('starting')
StartEnter(r) == Emit(SetState(r, "starting"), "starting")

StartFinish_EmitFirst(r, t) ==
    LET r1 == SetState(Emit(r, "started"), "running")
    IN  [r1 EXCEPT !.processInterval = t, !.timers = @ \cup {t}, !.halted = FALSE]

StartFinish_NoTimer(r, t) ==
    LET r1 == Emit(SetState(r, "running"), "started")
    IN  [r1 EXCEPT !.halted = FALSE]

\* start(): state = 'running'; emit('started'); processInterval = setInterval(...)
StartFinish(r, t) ==
    LET r1 == Emit(SetState(r, "running"), "started")
    IN  [r1 EXCEPT !.processInterval = t, !.timers = @ \cup {t}, !.halted = FALSE]

\* catch of start() and of stop(): state = 'error'; emit('error')
HookCatch(r) == Emit(SetState(r, "error"), "error")

StopEnter_DropQueue(r) ==
    LET r1 == Emit(SetState(r, "stopping"), "stopping")
    IN  [r1 EXCEPT !.timers = @ \ {r.processInterval},
                   !.processInterval = NoTimer,
                   !.messageQueue = << >>,
                   !.halted = TRUE]

\* stop(): state = 'stopping'; emit('stopping'); clearInterval(processInterval)
StopEnter(r) ==
    LET r1 == Emit(SetState(r, "stopping"), "stopping")
    IN  [r1 EXCEPT !.timers = @ \ {r.processInterval},
                   !.processInterval = NoTimer,
                   !.halted = TRUE]

StopFinish_EmitFirst(r) ==
    LET r1 == SetState(Emit(r, "stopped"), "stopped")
        left == {r.messageQueue[i].id : i \in 1..Len(r.messageQueue)}
    IN  [r1 EXCEPT !.sends = [h \in DOMAIN @ |->
                        IF h \in left THEN [@[h] EXCEPT !.leftAtStop = TRUE] ELSE @[h]]]

\* stop(): state = 'stopped'; emit('stopped').  The entries still queued are
\* marked, for the claims about them.
StopFinish(r) ==
    LET r1 == Emit(SetState(r, "stopped"), "stopped")
        left == {r.messageQueue[i].id : i \in 1..Len(r.messageQueue)}
    IN  [r1 EXCEPT !.sends = [h \in DOMAIN @ |->
                        IF h \in left THEN [@[h] EXCEPT !.leftAtStop = TRUE] ELSE @[h]]]

\* What the catch blocks of start() and stop() throw.  emit('error', {name,
\* error}) comes before `throw error`, and EventEmitter.emit throws its own
\* unhandled-error exception when 'error' has no listener; the registry
\* attaches one to the workers it creates, a standalone worker has none
\* unless its caller subscribes.
Rethrown == IF errorListener THEN "hookError" ELSE "unhandledError"

StartSync_ClearsTimer(r, t) ==
    IF r.state = "running"
    THEN [w |-> [r EXCEPT !.timers = @ \ {r.processInterval},
                          !.processInterval = NoTimer],
          pc |-> "done", res |-> "alreadyRunning"]
    ELSE IF handler.onStart
         THEN [w |-> StartEnter(r), pc |-> "onStart", res |-> "none"]
         ELSE [w |-> StartFinish(StartEnter(r), t), pc |-> "done", res |-> "ok"]

\* start() up to its first await or its return.
StartSync(r, t) ==
    IF r.state = "running"
    THEN [w |-> r, pc |-> "done", res |-> "alreadyRunning"]
    ELSE IF handler.onStart
         THEN [w |-> StartEnter(r), pc |-> "onStart", res |-> "none"]
         ELSE [w |-> StartFinish(StartEnter(r), t), pc |-> "done", res |-> "ok"]

\* start() after `await this.handler.onStart(...)` has settled.
StartResume(r, t, ok) ==
    IF ok
    THEN [w |-> StartFinish(r, t), pc |-> "done", res |-> "ok"]
    ELSE [w |-> HookCatch(r), pc |-> "done", res |-> Rethrown]

StopSync_NoGuard(r) ==
    IF handler.onStop
    THEN [w |-> StopEnter(r), pc |-> "onStop", res |-> "none"]
    ELSE [w |-> StopFinish(StopEnter(r)), pc |-> "done", res |-> "ok"]

\* stop() up to its first await or its return.
StopSync(r) ==
    IF r.state = "stopped"
    THEN [w |-> r, pc |-> "done", res |-> "ok"]
    ELSE IF handler.onStop
         THEN [w |-> StopEnter(r), pc |-> "onStop", res |-> "none"]
         ELSE [w |-> StopFinish(StopEnter(r)), pc |-> "done", res |-> "ok"]

\* stop() after `await this.handler.onStop(...)` has settled.
StopResume(r, ok) ==
    IF ok
    THEN [w |-> StopFinish(r), pc |-> "done", res |-> "ok"]
    ELSE [w |-> HookCatch(r), pc |-> "done", res |-> Rethrown]

Handle(m, st, val) ==
    [msg |-> m, st |-> st, val |-> val, afterStop |-> FALSE, leftAtStop |-> FALSE]

\* The double nearest to k / d, ties to the even one (IEEE 754 addition).
RoundHalfEven(k, d) ==
    LET q == k \div d
        rest == k % d
    IN  IF 2 * rest < d THEN q
        ELSE IF 2 * rest > d THEN q + 1
        ELSE IF q % 2 = 0 THEN q ELSE q + 1

\* const messageId = Date.now() + Math.random(), in doubles counted from the
\* first millisecond; rnd is Math.random() in units of 1 / (UlpsPerMs * SubUlp).
MessageId(t, rnd) == t * UlpsPerMs + RoundHalfEven(rnd, SubUlp)

\* The values of Math.random() the scenarios draw: the least ones, up to the
\* first double above the millisecond, and the greatest.
Randoms == 0..SubUlp \cup {UlpsPerMs * SubUlp - 1}

SendOp_NoGuard(r, m) ==
    LET h == Len(r.sends) + 1
    IN  [r EXCEPT !.messageQueue = Append(@, [id |-> h, message |-> m]),
                  !.sends = Append(@, Handle(m, "pending", "none"))]

\* send(message): throws unless running, else pushes an item whose
\* resolve/reject belong to the promise returned to the caller.
SendOp(r, m) ==
    LET h == Len(r.sends) + 1
    IN  IF r.state # "running"
        THEN [r EXCEPT !.sends = Append(@, Handle(m, "threw", r.state))]
        ELSE [r EXCEPT !.messageQueue = Append(@, [id |-> h, message |-> m]),
                       !.sends = Append(@, Handle(m, "pending", "none"))]

Shift_WrongMessage(q) == [id |-> q[1].id, message |-> q[Len(q)].message]

\* const item = this.messageQueue.shift()
Shift(q) == q[1]

ProcessMessages_Peek(r) ==
    IF Len(r.messageQueue) = 0 \/ ~handler.onMessage
    THEN r
    ELSE LET item == Shift(r.messageQueue)
         IN  [r EXCEPT !.inflight = @ \cup {item},
                       !.sends[item.id].afterStop = r.halted]

\* _processMessages() up to `await this.handler.onMessage(item.message, ...)`.
ProcessMessages(r) ==
    IF Len(r.messageQueue) = 0 \/ ~handler.onMessage
    THEN r
    ELSE LET item == Shift(r.messageQueue)
         IN  [r EXCEPT !.messageQueue = Tail(@),
                       !.inflight = @ \cup {item},
                       !.sends[item.id].afterStop = r.halted]

\* The modelled handler: onMessage returns its message, or throws on a
\* failing payload.
HandlerOutcome(m) ==
    IF m \in FailingPayloads THEN [st |-> "rejected", val |-> m]
                             ELSE [st |-> "resolved", val |-> m]

ProcessSettle_ErrorState(r, item) ==
    LET out == HandlerOutcome(item.message)
        r1 == [r EXCEPT !.inflight = @ \ {item},
                        !.sends[item.id].st = out.st,
                        !.sends[item.id].val = out.val]
    IN  IF out.st = "rejected" THEN HookCatch(r1) ELSE r1

\* _processMessages() after the await: item.resolve(response) or
\* item.reject(error).
ProcessSettle(r, item) ==
    LET out == HandlerOutcome(item.message)
    IN  [r EXCEPT !.inflight = @ \ {item},
                  !.sends[item.id].st = out.st,
                  !.sends[item.id].val = out.val]

----------------------------------------------------------------------------
\* The state after construction, for every handler shape.

Init ==
    /\ handler \in [onStart : BOOLEAN, onStop : BOOLEAN, onMessage : BOOLEAN]
    /\ errorListener \in BOOLEAN
    /\ state = "stopped"
    /\ messageQueue = << >>
    /\ processInterval = NoTimer
    /\ timers = {}
    /\ inflight = {}
    /\ sends = << >>
    /\ calls = << >>
    /\ events = << >>
    /\ hist = << "stopped" >>
    /\ halted = FALSE
    /\ now = 0
    /\ issued = << >>
    /\ services = << >>
    /\ workers = << >>
    /\ regEvents = << >>
    /\ regCalls = << >>

Call(op, at, x, seen) ==
    [op |-> op, at |-> at, pc |-> x.pc, res |-> x.res, seen |-> seen]

\* A caller calls worker.start().
CallStart ==
    /\ LET x == StartSync(Cur, Len(calls) + 1)
       IN  /\ Set(x.w)
           /\ calls' = Append(calls, Call("start", state, x, {}))
    /\ UNCHANGED <<handler, errorListener, idvars, regvars>>

\* A caller calls worker.stop() or worker.restart(); restart() begins with
\* `await this.stop()`.
CallStop(op) ==
    /\ LET x == StopSync(Cur)
           pc == IF op = "restart" /\ x.pc = "done" THEN "afterStop" ELSE x.pc
           ids == {i.id : i \in inflight}
       IN  /\ Set(x.w)
           /\ calls' = Append(calls,
                  Call(op, state, [pc |-> pc, res |-> IF pc = "done" THEN x.res ELSE "none"],
                       IF x.pc = "onStop" THEN ids ELSE {}))
    /\ UNCHANGED <<handler, errorListener, idvars, regvars>>

\* onStart of call c settles; start() (or the start() inside restart()) goes on.
ResumeStart(c, ok) ==
    /\ calls[c].pc = "onStart"
    /\ LET x == StartResume(Cur, c, ok)
       IN  /\ Set(x.w)
           /\ calls' = [calls EXCEPT ![c].pc = x.pc, ![c].res = x.res]
    /\ UNCHANGED <<handler, errorListener, idvars, regvars>>

\* onStop of call c settles; stop() goes on, and returns into restart().
ResumeStop(c, ok) ==
    /\ calls[c].pc = "onStop"
    /\ LET x == StopResume(Cur, ok)
           pc == IF calls[c].op = "restart" /\ x.res = "ok" THEN "afterStop" ELSE "done"
       IN  /\ Set(x.w)
           /\ calls' = [calls EXCEPT ![c].pc = pc,
                                     ![c].res = IF pc = "done" THEN x.res ELSE "none"]
    /\ UNCHANGED <<handler, errorListener, idvars, regvars>>

\* restart() after `await this.stop()`: `await this.start()`.
RestartContinue(c) ==
    /\ calls[c].pc = "afterStop"
    /\ LET x == StartSync(Cur, c)
       IN  /\ Set(x.w)
           /\ calls' = [calls EXCEPT ![c].pc = x.pc, ![c].res = x.res]
    /\ UNCHANGED <<handler, errorListener, idvars, regvars>>

\* A caller calls worker.send(m).
Send(m) ==
    /\ Set(SendOp(Cur, m))
    /\ UNCHANGED <<handler, errorListener, idvars, regvars, calls>>

\* An active interval timer fires: _processMessages() runs to its await.
Tick(t) ==
    /\ t \in timers
    /\ Set(ProcessMessages(Cur))
    /\ UNCHANGED <<handler, errorListener, idvars, regvars, calls>>

\* The onMessage invocation of an item settles.
Settle(item) ==
    /\ item \in inflight
    /\ Set(ProcessSettle(Cur, item))
    /\ UNCHANGED <<handler, errorListener, idvars, regvars, calls>>

\* A millisecond passes.
ClockTick ==
    /\ now < MaxNow
    /\ now' = now + 1
    /\ UNCHANGED <<handler, errorListener, state, messageQueue, processInterval,
                   timers, inflight, sends, calls, events, hist, halted, issued,
                   regvars>>

\* A caller calls worker.send(m); Math.random() returns rnd.
SendAt(m, rnd) ==
    /\ Set(SendOp(Cur, m))
    /\ issued' = IF state = "running"
              THEN Append(issued, [now |-> now, rnd |-> rnd, id |-> MessageId(now, rnd)])
              ELSE issued
    /\ UNCHANGED <<handler, errorListener, calls, now, regvars>>

\* The environment makes at most `ops` calls, at most `lifecycle` of them
\* start()/stop()/restart(); the event loop runs timers and continuations.
NextWithin(ops, lifecycle) ==
    \/ Len(calls) < lifecycle /\ Len(calls) + Len(sends) < ops /\ CallStart
    \/ \E op \in {"stop", "restart"} :
           Len(calls) < lifecycle /\ Len(calls) + Len(sends) < ops /\ CallStop(op)
    \/ \E m \in Payloads : Len(calls) + Len(sends) < ops /\ Send(m)
    \/ \E c \in 1..Len(calls), ok \in BOOLEAN : ResumeStart(c, ok)
    \/ \E c \in 1..Len(calls), ok \in BOOLEAN : ResumeStop(c, ok)
    \/ \E c \in 1..Len(calls) : RestartContinue(c)
    \/ \E t \in timers : Tick(t)
    \/ \E item \in inflight : Settle(item)

Next == NextWithin(MaxOps, MaxCalls)

Spec == Init /\ [][Next]_vars

WideNext == NextWithin(WideOps, WideCalls)

WideSpec == Init /\ [][WideNext]_vars

\* setInterval keeps firing while its timer is active, and every onMessage
\* invocation is assumed to terminate.
Fairness ==
    /\ WF_vars(\E t \in timers : Tick(t))
    /\ \A h \in 1..MaxOps : \A m \in Payloads : WF_vars(Settle([id |-> h, message |-> m]))

LiveSpec == Spec /\ Fairness

\* The scenarios about message ids: one start(), then send() calls as the
\* clock advances.
IdNext ==
    \/ Len(calls) < 1 /\ CallStart
    \/ \E c \in 1..Len(calls), ok \in BOOLEAN : ResumeStart(c, ok)
    \/ ClockTick
    \/ \E m \in Payloads, rnd \in Randoms : Len(sends) < MaxIds /\ SendAt(m, rnd)

IdSpec == Init /\ [][IdNext]_vars

----------------------------------------------------------------------------
\* ServiceRegistry.  Every worker is registered with the handler shape of
\* `handler`; a worker is a record of the fields of Cur, with its name and
\* context, so that the statements of ServiceWorker apply to it.

Names == {"a", "b"}

NoWorker == 0      \* services.get(name) === undefined

Reg == [services |-> services, workers |-> workers, regEvents |-> regEvents]

RegSet(g) ==
    /\ services' = g.services
    /\ workers' = g.workers
    /\ regEvents' = g.regEvents

\* new ServiceWorker(name, handler)
NewWorker(name) ==
    [name |-> name, context |-> << >>, state |-> "stopped",
     messageQueue |-> << >>, processInterval |-> NoTimer, timers |-> {},
     inflight |-> {}, sends |-> << >>, events |-> << >>,
     hist |-> << "stopped" >>, halted |-> FALSE]

Lookup_First(g, name) ==
    IF Len(g.services) = 0 THEN NoWorker ELSE g.services[1]

\* this.services.get(name)
Lookup(g, name) ==
    LET found == {i \in 1..Len(g.services) : g.workers[g.services[i]].name = name}
    IN  IF found = {} THEN NoWorker ELSE g.services[CHOOSE i \in found : TRUE]

\* this.services.has(name)
Has(g, name) == Lookup(g, name) # NoWorker

\* The listeners register() attaches: worker.on(ev, e => this.emit('service:' + ev, e))
ServiceEvent(ev) ==
    CASE ev = "starting" -> "service:starting"
      [] ev = "started" -> "service:started"
      [] ev = "stopping" -> "service:stopping"
      [] ev = "stopped" -> "service:stopped"
      [] ev = "error" -> "service:error"

Deliver_DropsError(g, w, r1) ==
    LET old == Len(g.workers[w].events)
        fresh == SelectSeq(SubSeq(r1.events, old + 1, Len(r1.events)),
                           LAMBDA e : e[1] # "error")
    IN  [g EXCEPT !.workers[w] = r1,
                  !.regEvents = @ \o [k \in 1..Len(fresh) |->
                                         <<ServiceEvent(fresh[k][1]), r1.name>>]]

\* Worker w has run up to r1: the notifications it emitted on the way were
\* forwarded to the registry by those listeners.
Deliver(g, w, r1) ==
    LET old == Len(g.workers[w].events)
        fresh == SubSeq(r1.events, old + 1, Len(r1.events))
    IN  [g EXCEPT !.workers[w] = r1,
                  !.regEvents = @ \o [k \in 1..Len(fresh) |->
                                         <<ServiceEvent(fresh[k][1]), r1.name>>]]

\* The modelled handler keeps a log in the context: every hook invocation
\* (onStart, onStop, onMessage) appends its name to it.
HookRan(r, hook) == [r EXCEPT !.context = Append(@, hook)]

\* The id setInterval returns to a worker: fresh for that worker.
Timer(r) == Len(r.hist)

\* What a call on a worker is at when it yields or returns.
PartOf(x) == IF x.pc = "done" THEN x.res ELSE x.pc

Pending(part) == part \in {"onStart", "onStop"}
Failed(part) == part \in {"hookError", "unhandledError", "alreadyRunning"}

RegisterOp_Replace(g, name) ==
    LET w == Len(g.workers) + 1
    IN  [g |-> [g EXCEPT !.workers = Append(@, NewWorker(name)),
                         !.services = Append(SelectSeq(@, LAMBDA i : g.workers[i].name # name), w),
                         !.regEvents = Append(@, <<"registered", name>>)],
         res |-> "ok"]

\* register(name, handler)
RegisterOp(g, name) ==
    IF Has(g, name)
    THEN [g |-> g, res |-> "alreadyRegistered"]
    ELSE LET w == Len(g.workers) + 1
         IN  [g |-> [g EXCEPT !.workers = Append(@, NewWorker(name)),
                              !.services = Append(@, w),
                              !.regEvents = Append(@, <<"registered", name>>)],
              res |-> "ok"]

\* this.services.delete(name); this.emit('unregistered', { name })
Remove(g, name) ==
    [g EXCEPT !.services = SelectSeq(@, LAMBDA i : g.workers[i].name # name),
              !.regEvents = Append(@, <<"unregistered", name>>)]

UnregisterSync_NoAwait(g, name) ==
    LET w == Lookup(g, name)
    IN  IF w = NoWorker
        THEN [g |-> g, pc |-> "done", res |-> "notRegistered", parts |-> << >>]
        ELSE IF g.workers[w].state = "running"
             THEN LET x == StopSync(g.workers[w])
                  IN  [g |-> Remove(Deliver(g, w, x.w), name),
                       pc |-> IF x.pc = "done" THEN "afterStop" ELSE "waiting",
                       res |-> "none", parts |-> w :> PartOf(x)]
             ELSE [g |-> Remove(g, name), pc |-> "done", res |-> "ok",
                   parts |-> << >>]

\* unregister(name) up to its await or its return.
UnregisterSync(g, name) ==
    LET w == Lookup(g, name)
    IN  IF w = NoWorker
        THEN [g |-> g, pc |-> "done", res |-> "notRegistered", parts |-> << >>]
        ELSE IF g.workers[w].state = "running"
             THEN LET x == StopSync(g.workers[w])
                  IN  [g |-> Deliver(g, w, x.w),
                       pc |-> IF x.pc = "done" THEN "afterStop" ELSE "waiting",
                       res |-> "none", parts |-> w :> PartOf(x)]
             ELSE [g |-> Remove(g, name), pc |-> "done", res |-> "ok",
                   parts |-> << >>]

Delegated_SwallowsFailure(g, w, x) ==
    [g |-> Deliver(g, w, x.w),
     pc |-> IF x.pc = "done" THEN "done" ELSE "waiting",
     res |-> IF x.pc = "done" THEN "ok" ELSE x.res, parts |-> w :> PartOf(x)]

Delegated_FreshContext(g, w, x) ==
    [g |-> Deliver(g, w, [x.w EXCEPT !.context = << >>]),
     pc |-> IF x.pc = "done" THEN "done" ELSE "waiting",
     res |-> x.res, parts |-> w :> PartOf(x)]

\* What `return worker.start()` and `return worker.stop()` leave of the call.
Delegated(g, w, x) ==
    [g |-> Deliver(g, w, x.w),
     pc |-> IF x.pc = "done" THEN "done" ELSE "waiting",
     res |-> x.res, parts |-> w :> PartOf(x)]

NotRegistered(g) ==
    [g |-> g, pc |-> "done", res |-> "notRegistered", parts |-> << >>]

\* start(name)
RegStartOp(g, name) ==
    LET w == Lookup(g, name)
    IN  IF w = NoWorker THEN NotRegistered(g)
        ELSE Delegated(g, w, StartSync(g.workers[w], Timer(g.workers[w])))

\* stop(name)
RegStopOp(g, name) ==
    LET w == Lookup(g, name)
    IN  IF w = NoWorker THEN NotRegistered(g)
        ELSE Delegated(g, w, StopSync(g.workers[w]))

\* send(name, message): the promise of worker.send(message) is the worker's
\* handle h.
RegSendOp(g, name, m) ==
    LET w == Lookup(g, name)
    IN  IF w = NoWorker THEN NotRegistered(g)
        ELSE [g |-> [g EXCEPT !.workers[w] = SendOp(@, m)],
              pc |-> "done", res |-> "delegated", parts |-> << >>]

PromiseAll_Any(parts) ==
    IF \E w \in DOMAIN parts : Failed(parts[w])
    THEN [pc |-> "done", res |-> "hookError"]
    ELSE IF \A w \in DOMAIN parts : Pending(parts[w]) /\ DOMAIN parts # {}
         THEN [pc |-> "waiting", res |-> "none"]
         ELSE [pc |-> "done", res |-> "ok"]

\* Promise.all(promises): fulfilled when every promise is, rejected as soon
\* as one is.
PromiseAll(parts) ==
    IF \E w \in DOMAIN parts : Failed(parts[w])
    THEN [pc |-> "done", res |-> "hookError"]
    ELSE IF \E w \in DOMAIN parts : Pending(parts[w])
         THEN [pc |-> "waiting", res |-> "none"]
         ELSE [pc |-> "done", res |-> "ok"]

\* The loop of startAll() (bulk = "startAll") and of stopAll(), from the i-th
\* entry of services on.
RECURSIVE BulkFrom(_, _, _, _)
BulkFrom(bulk, g, i, parts) ==
    IF i > Len(g.services)
    THEN [g |-> g, parts |-> parts]
    ELSE LET w == g.services[i]
             r == g.workers[w]
         IN  IF bulk = "startAll" /\ r.state = "stopped"
             THEN LET x == StartSync(r, Timer(r))
                  IN  BulkFrom(bulk, Deliver(g, w, x.w), i + 1, parts @@ (w :> PartOf(x)))
             ELSE IF bulk = "stopAll" /\ r.state = "running"
             THEN LET x == StopSync(r)
                  IN  BulkFrom(bulk, Deliver(g, w, x.w), i + 1, parts @@ (w :> PartOf(x)))
             ELSE BulkFrom(bulk, g, i + 1, parts)

\* startAll() and stopAll() up to `return Promise.all(promises)`.
BulkOp(bulk, g) ==
    LET b == BulkFrom(bulk, g, 1, << >>)
        all == PromiseAll(b.parts)
    IN  [g |-> b.g, pc |-> all.pc, res |-> all.res, parts |-> b.parts]

SettleOp_IgnoresStopFailure(g, c, w, ok) ==
    LET call == regCalls[c]
        r == HookRan(g.workers[w], call.parts[w])
        x == IF call.parts[w] = "onStart" THEN StartResume(r, Timer(r), ok)
                                          ELSE StopResume(r, ok)
        parts == [call.parts EXCEPT ![w] = x.res]
        all == PromiseAll(parts)
    IN  [g |-> Deliver(g, w, x.w),
         call |-> IF call.pc = "done"
                  THEN [call EXCEPT !.parts = parts]
                  ELSE IF call.op = "unregister"
                  THEN [call EXCEPT !.parts = parts, !.pc = "afterStop"]
                  ELSE [call EXCEPT !.parts = parts, !.pc = all.pc,
                                    !.res = IF call.op \in {"startAll", "stopAll"}
                                            THEN all.res ELSE x.res]]

SettleOp_Rollback(g, c, w, ok) ==
    LET call == regCalls[c]
        r == HookRan(g.workers[w], call.parts[w])
        x == IF call.parts[w] = "onStart" THEN StartResume(r, Timer(r), ok)
                                          ELSE StopResume(r, ok)
        parts == [call.parts EXCEPT ![w] = x.res]
        all == PromiseAll(parts)
        g1 == Deliver(g, w, x.w)
    IN  [g |-> IF ok THEN g1
               ELSE [g1 EXCEPT !.workers = [v \in DOMAIN @ |->
                        IF v \in DOMAIN parts /\ v # w
                        THEN [@[v] EXCEPT !.state = "stopped"] ELSE @[v]]],
         call |-> IF call.pc = "done"
                  THEN [call EXCEPT !.parts = parts]
                  ELSE IF call.op = "unregister" /\ all.res = "ok"
                  THEN [call EXCEPT !.parts = parts, !.pc = "afterStop"]
                  ELSE [call EXCEPT !.parts = parts, !.pc = all.pc,
                                    !.res = IF call.op \in {"startAll", "stopAll"}
                                            THEN all.res ELSE x.res]]

\* The hook that call c awaits on worker w has settled: the worker's start()
\* or stop() goes on, and settles the call's promise with it.
SettleOp(g, c, w, ok) ==
    LET call == regCalls[c]
        r == HookRan(g.workers[w], call.parts[w])
        x == IF call.parts[w] = "onStart" THEN StartResume(r, Timer(r), ok)
                                          ELSE StopResume(r, ok)
        parts == [call.parts EXCEPT ![w] = x.res]
        all == PromiseAll(parts)
    IN  [g |-> Deliver(g, w, x.w),
         call |-> IF call.pc = "done"
                  THEN [call EXCEPT !.parts = parts]
                  ELSE IF call.op = "unregister" /\ all.res = "ok"
                  THEN [call EXCEPT !.parts = parts, !.pc = "afterStop"]
                  ELSE [call EXCEPT !.parts = parts, !.pc = all.pc,
                                    !.res = IF call.op \in {"startAll", "stopAll"}
                                            THEN all.res ELSE x.res]]

RegCall(op, name, at, x) ==
    [op |-> op, name |-> name, at |-> at, pc |-> x.pc, res |-> x.res, parts |-> x.parts]

\* The state of the worker registered as name, as the caller finds it.
StateOf(name) ==
    IF Has(Reg, name) THEN workers[Lookup(Reg, name)].state ELSE "absent"

\* The workers on which a start() or stop() is awaiting its hook.
PendingHooks ==
    {w \in 1..Len(workers) :
        \E c \in 1..Len(regCalls) :
            w \in DOMAIN regCalls[c].parts /\ Pending(regCalls[c].parts[w])}

\* worker.getState()
GetState(r) ==
    [name |-> r.name, state |-> r.state, queueLength |-> Len(r.messageQueue),
     context |-> r.context]

\* registry.list()
List == [i \in 1..Len(services) |-> workers[services[i]].name]

\* registry.status()
Status ==
    [name \in {List[i] : i \in 1..Len(List)} |-> GetState(workers[Lookup(Reg, name)])]

WorkerIdle ==
    UNCHANGED <<handler, errorListener, state, messageQueue, processInterval,
                timers, inflight, sends, calls, events, hist, halted, idvars>>

\* A caller calls registry.register(name, handler).
Register(name) ==
    /\ LET x == RegisterOp(Reg, name)
       IN  /\ RegSet(x.g)
           /\ regCalls' = Append(regCalls,
                  RegCall("register", name, StateOf(name),
                          [pc |-> "done", res |-> x.res, parts |-> << >>]))
    /\ WorkerIdle

\* A caller calls registry.unregister(name).
Unregister(name) ==
    /\ LET x == UnregisterSync(Reg, name)
       IN  /\ RegSet(x.g)
           /\ regCalls' = Append(regCalls, RegCall("unregister", name, StateOf(name), x))
    /\ WorkerIdle

\* unregister() after `await worker.stop()`.
UnregisterContinue(c) ==
    /\ regCalls[c].pc = "afterStop"
    /\ RegSet(Remove(Reg, regCalls[c].name))
    /\ regCalls' = [regCalls EXCEPT ![c].pc = "done", ![c].res = "ok"]
    /\ WorkerIdle

\* A caller calls registry.start(name).
RegStart(name) ==
    /\ LET x == RegStartOp(Reg, name)
       IN  /\ RegSet(x.g)
           /\ regCalls' = Append(regCalls, RegCall("start", name, StateOf(name), x))
    /\ WorkerIdle

\* A caller calls registry.stop(name).
RegStop(name) ==
    /\ LET x == RegStopOp(Reg, name)
       IN  /\ RegSet(x.g)
           /\ regCalls' = Append(regCalls, RegCall("stop", name, StateOf(name), x))
    /\ WorkerIdle

\* A caller calls registry.send(name, m).
RegSend(name, m) ==
    /\ LET x == RegSendOp(Reg, name, m)
       IN  /\ RegSet(x.g)
           /\ regCalls' = Append(regCalls, RegCall("send", name, StateOf(name), x))
    /\ WorkerIdle

\* A caller calls registry.startAll() or registry.stopAll().
Bulk(bulk) ==
    /\ LET x == BulkOp(bulk, Reg)
       IN  /\ RegSet(x.g)
           /\ regCalls' = Append(regCalls, RegCall(bulk, "all", PendingHooks, x))
    /\ WorkerIdle

\* The onStart or onStop that call c awaits on worker w settles.
HookSettles(c, w, ok) ==
    /\ w \in DOMAIN regCalls[c].parts
    /\ Pending(regCalls[c].parts[w])
    /\ LET x == SettleOp(Reg, c, w, ok)
       IN  /\ RegSet(x.g)
           /\ regCalls' = [regCalls EXCEPT ![c] = x.call]
    /\ WorkerIdle

\* An interval timer of worker w fires.
RegTick(w) ==
    /\ workers[w].timers # {}
    /\ workers' = [workers EXCEPT ![w] = ProcessMessages(@)]
    /\ UNCHANGED <<services, regEvents, regCalls>>
    /\ WorkerIdle

\* An onMessage invocation of worker w settles.
RegSettle(w, item) ==
    /\ item \in workers[w].inflight
    /\ workers' = [workers EXCEPT ![w] = ProcessSettle(HookRan(@, "onMessage"), item)]
    /\ UNCHANGED <<services, regEvents, regCalls>>
    /\ WorkerIdle

\* The calls made so far, other than the register() calls that succeeded.
RegOps ==
    Cardinality({c \in 1..Len(regCalls) :
                     regCalls[c].op # "register" \/ regCalls[c].res # "ok"})

\* The names are interchangeable, so the first worker constructed is "a".
RegNextWithin(made, ops) ==
    \/ \E name \in Names :
           (IF Has(Reg, name) THEN RegOps < ops ELSE Len(workers) < made)
               /\ (Len(workers) = 0 => name = "a")
               /\ Register(name)
    \/ \E name \in Names : RegOps < ops /\ Unregister(name)
    \/ \E c \in 1..Len(regCalls) : UnregisterContinue(c)
    \/ \E name \in Names : RegOps < ops /\ RegStart(name)
    \/ \E name \in Names : RegOps < ops /\ RegStop(name)
    \/ \E name \in Names, m \in Payloads : RegOps < ops /\ RegSend(name, m)
    \/ \E bulk \in {"startAll", "stopAll"} : RegOps < ops /\ Bulk(bulk)
    \/ \E c \in 1..Len(regCalls), w \in 1..Len(workers), ok \in BOOLEAN :
           HookSettles(c, w, ok)
    \/ \E w \in 1..Len(workers) : RegTick(w)
    \/ \E w \in 1..Len(workers) : \E item \in workers[w].inflight : RegSettle(w, item)

RegNext == RegNextWithin(MaxWorkers, MaxRegOps)

\* The registry after construction; register() attaches a listener to every
\* worker's 'error' notification.
RegInit == Init /\ errorListener

RegSpec == RegInit /\ [][RegNext]_vars

\* A caller that kept the worker register() returned calls start() or stop()
\* on it, registered or not.
HandleCall(op, w) ==
    /\ LET r == workers[w]
           x == Delegated(Reg, w, IF op = "worker.start" THEN StartSync(r, Timer(r))
                                                         ELSE StopSync(r))
       IN  /\ RegSet(x.g)
           /\ regCalls' = Append(regCalls, RegCall(op, r.name, r.state, x))
    /\ WorkerIdle

WideRegNext ==
    \/ RegNextWithin(WideWorkers, WideRegOps)
    \/ \E op \in {"worker.start", "worker.stop"}, w \in 1..Len(workers) :
           RegOps < WideRegOps /\ HandleCall(op, w)

WideRegSpec == RegInit /\ [][WideRegNext]_vars

----------------------------------------------------------------------------
\* Vocabulary of the claims.

Handles == 1..Len(sends)
Accepted(h) == sends[h].st # "threw"
Completed(h) == sends[h].st \in {"resolved", "rejected"}
InflightIds == {i.id : i \in inflight}
QueuedIds == {messageQueue[i].id : i \in 1..Len(messageQueue)}
HooksInFlight == {c \in 1..Len(calls) : calls[c].pc \in {"onStart", "onStop"}}

\* C1: the handles of the messages one worker accepted are completed in
\* submission order, whatever the handlers' latencies.
C1_FifoCompletion ==
    \A i, j \in Handles :
        (i < j /\ Accepted(i) /\ Completed(j)) => Completed(i)

\* C2: at most one invocation among onStart, onMessage and onStop of a worker
\* is in flight at any moment.
C2_HandlerMutualExclusion ==
    Cardinality(HooksInFlight) + Cardinality(inflight) <= 1

\* The calls made are start() on the stopped worker, returned, and then stop().
StartThenStop ==
    /\ Len(calls) = 2
    /\ calls[1].op = "start" /\ calls[1].at = "stopped"
    /\ calls[2].op = "stop" /\ calls[2].at = "running"

\* C3: a successful start() on a stopped worker followed by a successful stop()
\* takes the state through stopped, starting, running, stopping, stopped and
\* fires starting, started, stopping, stopped once each, in that order, each
\* when the state already has the corresponding value.
C3_StartStopCycle ==
    /\ (Len(calls) = 1 /\ calls[1].op = "start" /\ calls[1].pc = "done"
            /\ calls[1].res = "ok")
        => /\ events = << <<"starting", "starting">>, <<"started", "running">> >>
           /\ hist = << "stopped", "starting", "running" >>
    /\ (StartThenStop /\ calls[2].pc = "done" /\ calls[2].res = "ok")
        => /\ events = << <<"starting", "starting">>, <<"started", "running">>,
                          <<"stopping", "stopping">>, <<"stopped", "stopped">> >>
           /\ hist = << "stopped", "starting", "running", "stopping", "stopped" >>

C3_Witness ==
    /\ handler.onStart /\ handler.onStop
    /\ StartThenStop /\ calls[2].pc = "done" /\ calls[2].res = "ok"
    /\ state = "stopped"

\* C4: send() on a worker that is not running throws "not running" with the
\* current state, changes neither the mailbox nor the state, and the call never
\* gets a completion later.
C4_SendNotRunning ==
    /\ [][ /\ (Len(sends') = Len(sends) + 1 /\ state # "running")
               => /\ sends'[Len(sends')].st = "threw"
                  /\ sends'[Len(sends')].val = state
                  /\ messageQueue' = messageQueue
                  /\ inflight' = inflight
                  /\ state' = state
           /\ \A h \in Handles : sends[h].st = "threw" => sends'[h] = sends[h]
         ]_vars
    /\ [](\A h \in Handles : sends[h].st = "threw" => h \notin QueuedIds \cup InflightIds)

C4_Witness ==
    \E h \in Handles :
        /\ sends[h].st = "threw" /\ sends[h].val = "stopping"
        /\ state = "stopped"

\* C5: from the moment stop() has been called until a later start() succeeds,
\* no onMessage invocation begins.
C5_StopHaltsDraining ==
    \A h \in Handles : ~sends[h].afterStop

\* C6: when stop() is called while an onMessage invocation is in flight, onStop
\* does not begin until that invocation has settled.
C6_StopWaitsForInflight ==
    \A c \in 1..Len(calls) :
        calls[c].pc = "onStop" => calls[c].seen \cap InflightIds = {}

\* C7, as claimed: a message still in the mailbox when the worker is stopped is
\* never handed to onMessage and its handle is never completed afterwards.
C7_AbandonedForever ==
    \A h \in Handles :
        sends[h].leftAtStop => (sends[h].st = "pending" /\ h \notin InflightIds)

\* A step of stop(): its synchronous part, or its continuation after onStop.
StopStep ==
    \/ /\ Len(calls') = Len(calls) + 1
       /\ calls'[Len(calls')].op \in {"stop", "restart"}
    \/ \E c \in 1..Len(calls) : calls[c].pc = "onStop" /\ calls'[c].pc # "onStop"

\* C7, amended: stop() neither removes nor completes the messages still in the
\* mailbox; they stay queued in order with their handles pending, and every
\* queued entry's handle is pending until a processing tick dequeues it.
C7_StopKeepsQueued ==
    /\ [][ StopStep => /\ messageQueue' = messageQueue
                       /\ inflight' = inflight
                       /\ \A h \in Handles : sends'[h].st = sends[h].st
         ]_vars
    /\ [](\A h \in QueuedIds : sends[h].st = "pending")

C7_Witness ==
    \E h \in Handles : sends[h].leftAtStop /\ Completed(h)

\* A step in which the onMessage invocation for handle h settles by throwing.
RejectStep(h) == sends[h].st = "pending" /\ sends'[h].st = "rejected"

\* C8: when onMessage throws for a message, only that message's handle is
\* rejected, with that error; the state, the notifications, the mailbox, the
\* processing timer and every other handle and invocation are untouched.
C8_FailureIsolation ==
    [][ \A h \in Handles : RejectStep(h) =>
            /\ sends'[h].val = sends[h].msg
            /\ \A k \in Handles \ {h} : sends'[k] = sends[k]
            /\ state' = state /\ events' = events /\ hist' = hist
            /\ messageQueue' = messageQueue
            /\ timers' = timers /\ processInterval' = processInterval
            /\ inflight' = {i \in inflight : i.id # h}
      ]_vars

C8_Witness ==
    \E h, k \in Handles :
        /\ h < k
        /\ sends[h].st = "rejected" /\ sends[k].st = "resolved"
        /\ state = "running"
        /\ \A e \in 1..Len(events) : events[e][1] # "error"

\* C9: a handle is completed with the outcome of the onMessage invocation that
\* received the message it was returned for: every queued or in-flight item
\* carries the message of its own handle, and a completed handle holds the
\* handler's outcome for that message.
C9_Pairing ==
    /\ \A i \in 1..Len(messageQueue) :
           messageQueue[i].message = sends[messageQueue[i].id].msg
    /\ \A item \in inflight : item.message = sends[item.id].msg
    /\ \A h \in Handles :
           Completed(h) => [st |-> sends[h].st, val |-> sends[h].val]
                               = HandlerOutcome(sends[h].msg)

C9_Witness ==
    \E h, k \in Handles :
        /\ h # k /\ Completed(h) /\ Completed(k)
        /\ sends[h].msg # sends[k].msg
        /\ ~sends[h].leftAtStop /\ ~sends[k].leftAtStop

\* A message waits for delivery: the handler defines onMessage, the worker is
\* running and the message's handle is still pending.
Waiting(h) == handler.onMessage /\ state = "running" /\ sends[h].st = "pending"

\* C10: with an onMessage handler whose invocations terminate, every accepted
\* message is eventually completed unless the worker leaves the running state:
\* again and again no message is left waiting (completions are permanent).
C10_DeliveryLiveness == []<>(\A h \in Handles : ~Waiting(h))

C10_Witness ==
    /\ Len(sends) = 2
    /\ \A h \in Handles : Completed(h)
    /\ state = "running"


----------------------------------------------------------------------------
\* Claims about the lifecycle calls.

\* A step in which a caller calls start().
StartCallStep ==
    Len(calls') = Len(calls) + 1 /\ calls'[Len(calls')].op = "start"

\* C11: a start() call made while the worker is starting, stopping or errored
\* does not move the worker to starting, does not run onStart and fires no
\* notification.
C11_StartOnlyFromStopped ==
    [][ (StartCallStep /\ state \in {"starting", "stopping", "error"})
            => /\ state' = state
               /\ events' = events
               /\ calls'[Len(calls')].pc # "onStart"
      ]_vars

\* A step in which a start(), called directly or from restart(), throws
\* "already running".
AlreadyRunningStep ==
    \E c \in 1..Len(calls') :
        /\ calls'[c].res = "alreadyRunning"
        /\ (c \in 1..Len(calls) => calls[c].res # "alreadyRunning")

\* C12: start() on a running worker throws "already running" and changes
\* nothing: state, notifications, mailbox, handles, invocations and the
\* processing timer stay as they are, and onStart is not invoked.
C12_StartWhileRunning ==
    [][ /\ (StartCallStep /\ state = "running")
            => /\ calls'[Len(calls')].res = "alreadyRunning"
               /\ calls'[Len(calls')].pc = "done"
        /\ AlreadyRunningStep
            => /\ state = "running"
               /\ UNCHANGED <<state, messageQueue, processInterval, timers,
                              inflight, sends, events, hist, halted>>
      ]_vars

C12_Witness ==
    \E c \in 1..Len(calls) :
        /\ calls[c].op = "start" /\ calls[c].res = "alreadyRunning"
        /\ handler.onStart
        /\ Len(messageQueue) > 0
        /\ state = "running"

\* A step in which the hook awaited by call c settles by throwing.
FailStep(c) ==
    /\ calls[c].pc \in {"onStart", "onStop"}
    /\ calls'[c].res \in {"hookError", "unhandledError"}

\* C13: when onStart or onStop throws, the worker ends in the error state and
\* exactly one "error" notification fires, and nothing else; after a failed
\* start no mailbox processing is active.
C13_HookFailure ==
    [][ \A c \in 1..Len(calls) : FailStep(c) =>
            /\ state' = "error"
            /\ events' = Append(events, <<"error", "error">>)
            /\ (calls[c].pc = "onStart" => timers' = {})
      ]_vars

\* C14: a start() or stop() whose hook throws E fails with that same E, with
\* or without a listener on the worker's "error" notification.
C14_HookErrorReachesCaller ==
    \A c \in 1..Len(calls) : calls[c].res # "unhandledError"

\* A step in which a caller calls stop().
StopCallStep ==
    Len(calls') = Len(calls) + 1 /\ calls'[Len(calls')].op = "stop"

\* A step in which call c, a stop(), returns successfully.
StopReturnStep(c) ==
    /\ calls'[c].op = "stop" /\ calls'[c].pc = "done" /\ calls'[c].res = "ok"
    /\ (c \in 1..Len(calls) => calls[c].pc # "done")

\* C15: stop() called in a state other than stopped sets the state to stopping,
\* fires "stopping" and cancels mailbox processing before onStop runs, and when
\* it returns the state is stopped and "stopped" has just fired.
C15_StopSequence ==
    [][ /\ (StopCallStep /\ state # "stopped")
            => /\ "stopping" \in {hist'[k] : k \in (Len(hist) + 1)..Len(hist')}
               /\ events'[Len(events) + 1] = <<"stopping", "stopping">>
               /\ processInterval' = NoTimer
               /\ timers' = {}
        /\ \A c \in 1..Len(calls') :
               (StopReturnStep(c) /\ calls'[c].at # "stopped")
                   => /\ state' = "stopped"
                      /\ events'[Len(events')] = <<"stopped", "stopped">>
      ]_vars

\* C16: stop() on a stopped worker succeeds and is a no-op: onStop is not
\* invoked, no notification fires, and state, mailbox, handles and timers are
\* unchanged.
C16_StopWhileStopped ==
    [][ (StopCallStep /\ state = "stopped")
            => /\ calls'[Len(calls')].pc = "done"
               /\ calls'[Len(calls')].res = "ok"
               /\ UNCHANGED <<state, messageQueue, processInterval, timers,
                              inflight, sends, events, hist, halted>>
      ]_vars

C16_Witness ==
    /\ handler.onStop
    /\ Len(calls) = 2
    /\ \A c \in 1..2 : /\ calls[c].op = "stop" /\ calls[c].at = "stopped"
                       /\ calls[c].pc = "done" /\ calls[c].res = "ok"
    /\ events = << >>

\* The calls made are start() on the stopped worker, returned, and then
\* restart().
StartThenRestart ==
    /\ Len(calls) = 2
    /\ calls[1].op = "start" /\ calls[1].at = "stopped"
    /\ calls[2].op = "restart" /\ calls[2].at = "running"

CycleEvents ==
    << <<"starting", "starting">>, <<"started", "running">>,
       <<"stopping", "stopping">>, <<"stopped", "stopped">>,
       <<"starting", "starting">>, <<"started", "running">> >>

CycleStates ==
    << "stopped", "starting", "running", "stopping", "stopped", "starting", "running" >>

\* C17: restart() on a running worker with succeeding hooks is stop() followed
\* by start(): the notifications are stopping, stopped, starting, started in
\* that order, once each, the start part begins only after the stop part has
\* completed, and the worker ends running with one processing timer.
C17_Restart ==
    StartThenRestart =>
        /\ calls[2].pc = "onStop"
            => events = SubSeq(CycleEvents, 1, 3) /\ hist = SubSeq(CycleStates, 1, 4)
        /\ calls[2].pc = "afterStop"
            => events = SubSeq(CycleEvents, 1, 4) /\ hist = SubSeq(CycleStates, 1, 5)
        /\ calls[2].pc = "onStart"
            => events = SubSeq(CycleEvents, 1, 5) /\ hist = SubSeq(CycleStates, 1, 6)
        /\ (calls[2].pc = "done" /\ calls[2].res = "ok")
            => /\ events = CycleEvents /\ hist = CycleStates
               /\ state = "running"
               /\ timers = {2} /\ processInterval = 2

C17_Witness ==
    /\ handler.onStart /\ handler.onStop
    /\ StartThenRestart
    /\ calls[2].pc = "done" /\ calls[2].res = "ok"

EventNames == [k \in 1..Len(events) |-> events[k][1]]

\* Between two occurrences of ev there is a "stopped" or an "error".
Alternates(ev) ==
    \A i, j \in 1..Len(events) :
        (i < j /\ EventNames[i] = ev /\ EventNames[j] = ev)
            => \E k \in (i + 1)..(j - 1) : EventNames[k] \in {"stopped", "error"}

\* C18: under any interleaving of start()/stop()/restart() calls there are
\* never two "started" notifications, nor two onStart invocations (one follows
\* each "starting"), without a "stopped" or "error" between them.
C18_ExactlyOnceTransitions ==
    Alternates("started") /\ Alternates("starting")

----------------------------------------------------------------------------
\* Claims about how the mailbox is drained.

\* A step in which an onMessage invocation settles.
SettleStep == \E item \in inflight : item \notin inflight'

\* C19: one execution of the processing procedure goes on to the next entry
\* when an invocation settles, without a further trigger, until the mailbox is
\* empty.
C19_DrainsToEmpty ==
    [][ (SettleStep /\ Len(messageQueue) > 0)
            => Len(messageQueue') = Len(messageQueue) - 1
      ]_vars

\* C20: an accepted send() itself starts draining when no drain is in
\* progress, so an entry is queued only while a drain is running, and no
\* polling timer exists while the worker is running.
C20_EventDriven ==
    /\ state = "running" => timers = {}
    /\ (handler.onMessage /\ Len(messageQueue) > 0) => inflight # {}

----------------------------------------------------------------------------
\* Claims about the handler's optional hooks.

\* A message accepted by the running worker whose handle is still pending.
Undelivered(h) == state = "running" /\ sends[h].st = "pending"

\* C21: a missing hook behaves as a hook that does nothing: start() and stop()
\* go through the usual transitions, and on a running worker every accepted
\* message is dequeued and its handle completed, with or without onMessage.
C21_OptionalHooks ==
    /\ []C3_StartStopCycle
    /\ []<>(\A h \in Handles : ~Undelivered(h))

\* C22: the message ids generated by send() for one worker are pairwise
\* distinct, also for submissions within the same millisecond, whenever the
\* clock or the random draw differ.
C22_UniqueIds ==
    \A i, j \in 1..Len(issued) :
        (i # j /\ <<issued[i].now, issued[i].rnd>> # <<issued[j].now, issued[j].rnd>>)
            => issued[i].id # issued[j].id

----------------------------------------------------------------------------
\* Claims about the registry.

Registered(name) == \E i \in 1..Len(services) : workers[services[i]].name = name
WorkerOf(name) == CHOOSE w \in 1..Len(workers) :
                      \E i \in 1..Len(services) : services[i] = w /\ workers[w].name = name
InServices(w) == \E i \in 1..Len(services) : services[i] = w

\* A step in which a caller makes a call on the registry, and that call.
RegCallStep(op) ==
    Len(regCalls') = Len(regCalls) + 1 /\ regCalls'[Len(regCalls')].op = op
NewCall == regCalls'[Len(regCalls')]

\* C23: register() with a name already present fails with "already
\* registered" and changes nothing (mapping, workers, handler, notifications);
\* with a new name it stores a new worker in state stopped with empty context
\* and mailbox under that name and fires "registered" once.
C23_Register ==
    [][ RegCallStep("register") =>
            IF Registered(NewCall.name)
            THEN /\ NewCall.res = "alreadyRegistered"
                 /\ UNCHANGED <<services, workers, regEvents, handler>>
            ELSE /\ NewCall.res = "ok"
                 /\ Len(workers') = Len(workers) + 1
                 /\ \A w \in 1..Len(workers) : workers'[w] = workers[w]
                 /\ LET r == workers'[Len(workers')]
                    IN  /\ r.name = NewCall.name
                        /\ r.state = "stopped"
                        /\ r.context = << >>
                        /\ r.messageQueue = << >>
                 /\ services' = Append(services, Len(workers'))
                 /\ regEvents' = Append(regEvents, <<"registered", NewCall.name>>)
      ]_vars

C23_Witness ==
    \E c \in 1..Len(regCalls) :
        /\ regCalls[c].op = "register" /\ regCalls[c].res = "alreadyRegistered"
        /\ regCalls[c].at = "running"
        /\ workers[WorkerOf(regCalls[c].name)].state = "running"
        /\ Len(workers) = 1

\* A worker is live while it is registered or in a state other than stopped.
Live(w) == InServices(w) \/ workers[w].state # "stopped"

\* C24: there are never two live workers created for the same name.
C24_NameUniqueness ==
    \A v, w \in 1..Len(workers) :
        (v # w /\ workers[v].name = workers[w].name) => ~(Live(v) /\ Live(w))

\* C25: whenever a worker leaves the mapping it is in state stopped.
C25_RemovedOnlyStopped ==
    [][ \A w \in 1..Len(workers) :
            (InServices(w) /\ ~InServices(w)') => workers'[w].state = "stopped"
      ]_vars

\* The unregister() calls that found their worker running.
StoppingUnregisters ==
    {c \in 1..Len(regCalls) : regCalls[c].op = "unregister" /\ regCalls[c].at = "running"}

\* C26: unregister() of a running worker stops it first: the call removes
\* nothing and fires no "unregistered" while it awaits the stop; the worker's
\* "stopped" (service:stopped on the registry) fires in the step that completes
\* the stop; only a later step of the call removes the name and fires
\* "unregistered", and the call returns in that step.
C26_UnregisterStopsFirst ==
    [][ /\ (RegCallStep("unregister") /\ NewCall.at = "running")
            => /\ services' = services
               /\ NewCall.pc # "done"
               /\ \A k \in (Len(regEvents) + 1)..Len(regEvents') :
                      regEvents'[k][1] # "unregistered"
               /\ NewCall.pc = "afterStop"
                      => regEvents'[Len(regEvents')] = <<"service:stopped", NewCall.name>>
        /\ \A c \in StoppingUnregisters :
               /\ (regCalls[c].pc = "waiting" /\ regCalls'[c].pc # "waiting")
                      => /\ services' = services
                         /\ regCalls'[c].pc = "afterStop"
                                => regEvents'[Len(regEvents')]
                                       = <<"service:stopped", regCalls[c].name>>
                         /\ regCalls'[c].pc = "done" => regCalls'[c].res = "hookError"
               /\ (regCalls[c].pc = "afterStop" /\ regCalls'[c].pc # "afterStop")
                      => /\ regCalls'[c].pc = "done" /\ regCalls'[c].res = "ok"
                         /\ regEvents' = Append(regEvents, <<"unregistered", regCalls[c].name>>)
                         /\ ~Registered(regCalls[c].name)'
               /\ (regCalls[c].pc = "waiting") => regCalls[c].res = "none"
      ]_vars

C26_Witness ==
    /\ handler.onStop
    /\ \E c \in StoppingUnregisters :
           /\ regCalls[c].pc = "done" /\ regCalls[c].res = "ok"
           /\ Len(regEvents) >= 2
           /\ regEvents[Len(regEvents) - 1] = <<"service:stopped", regCalls[c].name>>
           /\ regEvents[Len(regEvents)] = <<"unregistered", regCalls[c].name>>

\* C27: unregister, start, stop and send on a name that is not registered fail
\* with "not registered" and change nothing: mapping, workers and notifications
\* stay as they are.
C27_AbsentName ==
    [][ \A op \in {"unregister", "start", "stop", "send"} :
            (RegCallStep(op) /\ ~Registered(NewCall.name))
                => /\ NewCall.res = "notRegistered" /\ NewCall.pc = "done"
                   /\ UNCHANGED <<services, workers, regEvents>>
      ]_vars

C27_Witness ==
    /\ Len(regCalls) = 3
    /\ regCalls[1].op = "register" /\ regCalls[1].name = "a"
    /\ regCalls[2].op = "start" /\ regCalls[2].name = "a" /\ regCalls[2].res = "ok"
    /\ regCalls[3].op = "stop" /\ regCalls[3].name = "b"
    /\ regCalls[3].res = "notRegistered"
    /\ workers[1].state = "running"

\* The notifications of the registry after worker w has gone on to r1.
Forwarded(w, r1) ==
    regEvents \o [k \in 1..(Len(r1.events) - Len(workers[w].events)) |->
                     <<ServiceEvent(r1.events[Len(workers[w].events) + k][1]), r1.name>>]

\* C28: start(name), stop(name) and send(name, m) on a registered name do to
\* the worker exactly what start(), stop() and send(m) do, change nothing else,
\* and settle with the worker's own result or failure.
C28_Delegation ==
    [][ /\ (RegCallStep("start") /\ Registered(NewCall.name))
            => LET w == WorkerOf(NewCall.name)
                   x == StartSync(workers[w], Timer(workers[w]))
               IN  /\ workers' = [workers EXCEPT ![w] = x.w]
                   /\ services' = services
                   /\ regEvents' = Forwarded(w, x.w)
                   /\ NewCall.res = x.res
                   /\ (NewCall.pc = "done") <=> (x.pc = "done")
        /\ (RegCallStep("stop") /\ Registered(NewCall.name))
            => LET w == WorkerOf(NewCall.name)
                   x == StopSync(workers[w])
               IN  /\ workers' = [workers EXCEPT ![w] = x.w]
                   /\ services' = services
                   /\ regEvents' = Forwarded(w, x.w)
                   /\ NewCall.res = x.res
                   /\ (NewCall.pc = "done") <=> (x.pc = "done")
        /\ (RegCallStep("send") /\ Registered(NewCall.name))
            => LET w == WorkerOf(NewCall.name)
               IN  /\ \E m \in Payloads : workers' = [workers EXCEPT ![w] = SendOp(@, m)]
                   /\ UNCHANGED <<services, regEvents>>
        /\ \A c \in 1..Len(regCalls) :
               (regCalls[c].op \in {"start", "stop"} /\ regCalls[c].pc = "waiting"
                    /\ regCalls'[c].pc = "done")
                   => \E w \in DOMAIN regCalls[c].parts, ok \in BOOLEAN :
                          LET r == [workers[w] EXCEPT
                                       !.context = Append(@, regCalls[c].parts[w])]
                              x == IF regCalls[c].op = "start"
                                   THEN StartResume(r, Timer(r), ok)
                                   ELSE StopResume(r, ok)
                          IN  /\ workers' = [workers EXCEPT ![w] = x.w]
                              /\ services' = services
                              /\ regEvents' = Forwarded(w, x.w)
                              /\ regCalls'[c].res = x.res
      ]_vars

C28_Witness ==
    /\ handler.onStart
    /\ Len(regCalls) = 3
    /\ regCalls[2].op = "start" /\ regCalls[2].pc = "done" /\ regCalls[2].res = "ok"
    /\ regCalls[3].op = "send" /\ regCalls[3].res = "delegated"
    /\ Len(workers[1].messageQueue) = 1
    /\ workers[1].state = "running"

\* No call was awaiting a hook on a worker of bulk call c when c was made, and
\* no call but c has touched the workers of c since.
Alone(c) ==
    /\ regCalls[c].at \cap DOMAIN regCalls[c].parts = {}
    /\ \A d \in (c + 1)..Len(regCalls) :
           DOMAIN regCalls[d].parts \cap DOMAIN regCalls[c].parts = {}

\* A step in which bulk call c returns successfully.
BulkReturnStep(c, bulk) ==
    /\ regCalls'[c].op = bulk /\ regCalls'[c].pc = "done" /\ regCalls'[c].res = "ok"
    /\ (c \in 1..Len(regCalls) => regCalls[c].pc # "done")

\* C29: startAll() calls start() on exactly the registered workers in state
\* stopped, and stopAll() calls stop() on exactly those in state running; the
\* other workers are left as they are; and when such a call returns and nothing
\* else has called its workers meanwhile, each of them is running (stopped).
C29_BulkSelection ==
    [][ /\ RegCallStep("startAll")
            => /\ DOMAIN NewCall.parts
                   = {w \in 1..Len(workers) : InServices(w) /\ workers[w].state = "stopped"}
               /\ \A w \in 1..Len(workers) :
                      workers'[w] = IF w \in DOMAIN NewCall.parts
                                    THEN StartSync(workers[w], Timer(workers[w])).w
                                    ELSE workers[w]
        /\ RegCallStep("stopAll")
            => /\ DOMAIN NewCall.parts
                   = {w \in 1..Len(workers) : InServices(w) /\ workers[w].state = "running"}
               /\ \A w \in 1..Len(workers) :
                      workers'[w] = IF w \in DOMAIN NewCall.parts
                                    THEN StopSync(workers[w]).w
                                    ELSE workers[w]
        /\ \A c \in 1..Len(regCalls') :
               /\ (BulkReturnStep(c, "startAll") /\ Alone(c)')
                      => \A w \in DOMAIN regCalls'[c].parts : workers'[w].state = "running"
               /\ (BulkReturnStep(c, "stopAll") /\ Alone(c)')
                      => \A w \in DOMAIN regCalls'[c].parts : workers'[w].state = "stopped"
      ]_vars

C29_Witness ==
    /\ handler.onStart /\ handler.onStop
    /\ Len(regCalls) = 4
    /\ regCalls[3].op = "startAll" /\ regCalls[3].pc = "done" /\ regCalls[3].res = "ok"
    /\ regCalls[4].op = "stopAll" /\ regCalls[4].pc = "done" /\ regCalls[4].res = "ok"
    /\ DOMAIN regCalls[3].parts = {1, 2}
    /\ DOMAIN regCalls[4].parts = {1, 2}
    /\ \A w \in {1, 2} : workers[w].state = "stopped"

\* C30: when startAll() or stopAll() has settled, every start() or stop() it
\* initiated has settled, also when one of them failed.
C30_BulkCompletion ==
    \A c \in 1..Len(regCalls) :
        (regCalls[c].op \in {"startAll", "stopAll"} /\ regCalls[c].pc = "done")
            => \A w \in DOMAIN regCalls[c].parts : ~Pending(regCalls[c].parts[w])

\* A step in which the hook that call c awaits on worker w settles.
PartSettles(c, w) ==
    /\ w \in DOMAIN regCalls[c].parts
    /\ Pending(regCalls[c].parts[w])
    /\ ~Pending(regCalls'[c].parts[w])

StartAlls == {c \in 1..Len(regCalls) : regCalls[c].op = "startAll"}

\* C31: when one onStart of a startAll() fails, the failing worker is errored
\* and nothing is rolled back or cancelled: the other workers and their starts
\* are left as they are, each of them that completes reaches running, also
\* after the call has failed, and status() reports these states.
C31_PartialSuccess ==
    /\ [][ \A c \in StartAlls : \A w \in DOMAIN regCalls[c].parts :
               PartSettles(c, w) =>
                   /\ \A v \in 1..Len(workers) \ {w} : workers'[v] = workers[v]
                   /\ \A v \in DOMAIN regCalls[c].parts \ {w} :
                          regCalls'[c].parts[v] = regCalls[c].parts[v]
                   /\ regCalls'[c].parts[w] = "ok" => workers'[w].state = "running"
                   /\ regCalls'[c].parts[w] = "hookError" => workers'[w].state = "error"
         ]_vars
    /\ [](\A c \in StartAlls : Alone(c) =>
             \A w \in DOMAIN regCalls[c].parts :
                 /\ regCalls[c].parts[w] = "ok" => workers[w].state = "running"
                 /\ regCalls[c].parts[w] = "hookError" => workers[w].state = "error"
                 /\ InServices(w) => Status[workers[w].name].state = workers[w].state)

C31_Witness ==
    \E c \in StartAlls :
        /\ regCalls[c].pc = "done" /\ regCalls[c].res = "hookError"
        /\ regCalls[c].parts = <<"hookError", "ok">>
        /\ List = <<"a", "b">>
        /\ Status["a"].state = "error"
        /\ Status["b"].state = "running"
        /\ regEvents[Len(regEvents)] = <<"service:started", "b">>

\* The service:* notifications among the registry notifications es that carry
\* the name n.
ServiceEventsOf(es, n) ==
    SelectSeq(es, LAMBDA e : e[2] = n /\ e[1] \notin {"registered", "unregistered"})

\* The notifications the workers named n emit in this step, as the registry
\* names them.
EmittedBy(n) ==
    LET ws == {w \in 1..Len(workers) : workers[w].name = n
                                       /\ workers'[w].events # workers[w].events}
    IN  IF ws = {} THEN << >>
        ELSE LET w == CHOOSE v \in ws : TRUE
             IN  [k \in 1..(Len(workers'[w].events) - Len(workers[w].events)) |->
                     <<CASE workers'[w].events[Len(workers[w].events) + k][1] = "starting"
                              -> "service:starting"
                         [] workers'[w].events[Len(workers[w].events) + k][1] = "started"
                              -> "service:started"
                         [] workers'[w].events[Len(workers[w].events) + k][1] = "stopping"
                              -> "service:stopping"
                         [] workers'[w].events[Len(workers[w].events) + k][1] = "stopped"
                              -> "service:stopped"
                         [] workers'[w].events[Len(workers[w].events) + k][1] = "error"
                              -> "service:error",
                       n>>]

\* C32: every notification a registered worker emits is emitted exactly once
\* on the registry as service:<event> with the worker's name, in the order the
\* worker emitted them, nothing else appears as a service:* notification, and
\* "registered" for a name precedes every service:* notification with it.
C32_EventForwarding ==
    /\ [][ /\ Len(regEvents') >= Len(regEvents)
           /\ SubSeq(regEvents', 1, Len(regEvents)) = regEvents
           /\ \A n \in Names :
                  /\ Cardinality({w \in 1..Len(workers) :
                         workers[w].name = n /\ workers'[w].events # workers[w].events}) <= 1
                  /\ ServiceEventsOf(SubSeq(regEvents', Len(regEvents) + 1, Len(regEvents')), n)
                         = EmittedBy(n)
         ]_vars
    /\ [](\A k \in 1..Len(regEvents) :
             regEvents[k][1] \notin {"registered", "unregistered"}
                 => \E j \in 1..(k - 1) : regEvents[j] = <<"registered", regEvents[k][2]>>)

C32_Witness ==
    /\ handler.onStart /\ handler.onStop
    /\ regEvents = << <<"registered", "a">>, <<"service:starting", "a">>,
                      <<"service:started", "a">>, <<"service:stopping", "a">>,
                      <<"service:error", "a">> >>

\* A step in which an onMessage invocation of worker w settles.
MessageSettles(w) ==
    \E item \in workers[w].inflight : item \notin workers'[w].inflight

\* C33: a worker's context is empty at construction and changes only when one
\* of its own onStart, onStop or onMessage invocations settles, and then only
\* by what the hook wrote: no call on the worker or the registry resets,
\* replaces or writes it, so what one invocation wrote is there for every
\* later one.
C33_ContextOwnership ==
    [][ /\ \A w \in (Len(workers) + 1)..Len(workers') : workers'[w].context = << >>
        /\ \A w \in 1..Len(workers) :
               workers'[w].context # workers[w].context
                   => /\ \/ \E c \in 1..Len(regCalls) : PartSettles(c, w)
                         \/ MessageSettles(w)
                      /\ \E hook \in {"onStart", "onStop", "onMessage"} :
                             workers'[w].context = Append(workers[w].context, hook)
      ]_vars

C33_Witness ==
    /\ Len(workers) = 1
    /\ workers[1].context = <<"onStart", "onMessage">>
    /\ workers[1].state = "running"
    /\ Len(workers[1].sends) = 1 /\ workers[1].sends[1].st = "resolved"

----------------------------------------------------------------------------
\* Claims about the processing timer and about overlapping calls.

\* C34: a worker has at most one active processing timer, and has one only
\* while its state is running.
C34_OneTimerWhileRunning ==
    /\ Cardinality(timers) <= 1
    /\ timers # {} => state = "running"

\* C35: once a stop() has returned successfully the state stays stopped until
\* a start() is called: a start() still inside onStart at that time does not
\* move the worker to running nor fire "started" when onStart settles.
C35_StoppedIsStable ==
    [][ \A c \in 1..Len(calls) :
            (/\ state = "stopped"
             /\ \E d \in 1..Len(calls) : /\ calls[d].op = "stop" /\ calls[d].pc = "done"
                                         /\ calls[d].res = "ok" /\ calls[d].at # "stopped"
             /\ calls[c].pc = "onStart" /\ calls'[c].pc = "done")
                => /\ state' # "running"
                   /\ \A k \in (Len(events) + 1)..Len(events') : events'[k][1] # "started"
      ]_vars

\* C36: every accepted message is handed to onMessage at most once and its
\* handle is completed at most once: an accepted handle is in exactly one of
\* the mailbox (once), an onMessage invocation, or the completed handles; it
\* never returns to the mailbox, an invocation only takes entries from the
\* mailbox, a settled invocation completes its handle, and a completed handle
\* never changes again.
C36_AtMostOnce ==
    /\ [](/\ Cardinality(QueuedIds) = Len(messageQueue)
          /\ Cardinality(InflightIds) = Cardinality(inflight)
          /\ QueuedIds \cap InflightIds = {}
          /\ \A h \in Handles :
                 /\ Completed(h) => h \notin QueuedIds \cup InflightIds
                 /\ Accepted(h) => (Completed(h) \/ h \in QueuedIds \cup InflightIds)
                 /\ ~Accepted(h) => h \notin QueuedIds \cup InflightIds)
    /\ [][ \A h \in Handles :
               /\ h \notin QueuedIds => h \notin QueuedIds'
               /\ (h \notin InflightIds /\ h \in InflightIds') => h \in QueuedIds
               /\ (h \in InflightIds /\ h \notin InflightIds') => Completed(h)'
               /\ Completed(h) => /\ sends'[h].st = sends[h].st
                                  /\ sends'[h].val = sends[h].val
         ]_vars

C36_Witness ==
    /\ Cardinality(timers) = 2
    /\ \E h \in Handles : Completed(h)

----------------------------------------------------------------------------
\* Claims about unregistration.

\* How many of the registry notifications es are ev for the name n.
Count(es, ev, n) == Len(SelectSeq(es, LAMBDA e : e = <<ev, n>>))

\* C37: each successful registration of a name is ended by at most one
\* "unregistered" notification, however the unregister() calls on that name
\* overlap.
C37_OneUnregistered ==
    \A n \in Names :
        Count(regEvents, "unregistered", n) <= Count(regEvents, "registered", n)

\* C38: when the onStop of the stop() that unregister() awaits throws,
\* unregister() fails with that error and goes no further: the mapping is
\* unchanged, the worker is errored and still listed by list() and status(),
\* and no "unregistered" fires, then or later.
C38_FailedStopKeepsName ==
    [][ \A c \in StoppingUnregisters :
            /\ \A w \in DOMAIN regCalls[c].parts :
                   (PartSettles(c, w) /\ regCalls'[c].parts[w] # "ok")
                       => /\ regCalls'[c].pc = "done"
                          /\ regCalls'[c].res = "hookError"
                          /\ services' = services
                          /\ workers'[w].state = "error"
                          /\ \A k \in (Len(regEvents) + 1)..Len(regEvents') :
                                 regEvents'[k][1] # "unregistered"
                          /\ InServices(w)
                                 => /\ \E i \in 1..Len(List') : List'[i] = regCalls[c].name
                                    /\ Status'[regCalls[c].name].state = "error"
            /\ (regCalls[c].pc = "done" /\ regCalls[c].res = "hookError")
                   => regCalls'[c] = regCalls[c]
      ]_vars

C38_Witness ==
    \E c \in StoppingUnregisters :
        /\ regCalls[c].pc = "done" /\ regCalls[c].res = "hookError"
        /\ List = <<regCalls[c].name>>
        /\ Status[regCalls[c].name].state = "error"
        /\ Count(regEvents, "unregistered", regCalls[c].name) = 0

\* C39: once "unregistered" has fired for a name, no service:* notification
\* with that name is emitted on the registry until the name is registered
\* again.
C39_NoForwardingAfterUnregister ==
    \A k \in 1..Len(regEvents) :
        regEvents[k][1] \notin {"registered", "unregistered"}
            => Count(SubSeq(regEvents, 1, k - 1), "unregistered", regEvents[k][2])
                   < Count(SubSeq(regEvents, 1, k - 1), "registered", regEvents[k][2])

============================================================================
